---- MODULE Spec2Model ----
(***************************************************************************)
(* Model of autocad_batchjobber:                                           *)
(*   - batchjobber/pipeline.py : DrawingProcessor (open pre-check,         *)
(*     validation pool, filter_complete) and the Builder processes,        *)
(*   - batchjobber/gui.py      : BatchJobber, the application's caller of  *)
(*     process() and stop() (run, filtering_done, processing_done,         *)
(*     on_quit); the Api specifications put any other caller in its place, *)
(*   - batchjobber/log_handlers.py : LogDispatcher and log_listener,       *)
(*   - main.py                 : MultiProcessingHandler.                   *)
(* Drawings are the integers 1..n, the queue sentinel None is 0.           *)
(***************************************************************************)
EXTENDS Integers, Sequences, FiniteSets, TLC

\* ------------------------------------------------------------------ bounds
MaxItems == 2      \* longest drawing list handed to process()
MaxCpu == 2        \* largest mp.cpu_count() considered
MaxRuns == 1       \* process() calls per behaviour
MaxReport == 3     \* longest fail queue handed to filtering_done alone
MaxRecords == 2    \* emit() calls per behaviour
MaxProducers == 2  \* processes that log through the handler
MaxCloses == 2     \* close() calls per behaviour
MaxLogEvents == 4  \* records put on the dispatcher's log queue

\* ------------------------------------------------------------- vocabulary
None == 0

\* The results one external check of a drawing can have (check_drawing):
\*   "pass"   output matches, Total Xref(s) is 0
\*   "xref"   output matches, Total Xref(s) is not 0
\*   "indet"  output does not match the pattern: check_drawing returns False
\*   "raised" autocad_console() or sp.check_output raises
CheckOutcomes == {"pass", "xref", "indet", "raised"}

\* The exit statuses of the external build (accoreconsole): zero or not.
BuildStatuses == {"zero", "nonzero"}

FailEntry(d, r) == [dwg |-> d, reason |-> r]
NoneEntry == [dwg |-> None, reason |-> "None"]

\* The processes that log through one MultiProcessingHandler; process 1 is the
\* one that created the handler and runs its receive thread.
Producers == 1..MaxProducers

VARIABLES
    cpu_count,            \* mp.cpu_count() of the host
    override,             \* num_builders last passed to reset_builders, or 0
    runs,                 \* number of process() calls made so far
    gui,                  \* main thread: "mainloop" | "destroyed"
    blocked,              \* threads blocked inside filtering_done's queue read
    job_running,          \* BatchJobber.job_running
    run_button,           \* state of the Run button: "normal" | "disabled"
    has_failed_drawings,  \* BatchJobber.has_failed_drawings
    failed_list,          \* BatchJobber.failed_list
    input,                \* the list run() handed to process() (history)
    open_drawings,        \* the drawings with a .dwl file at that call
    drawings,             \* that list after the open pre-check
    result,               \* check result of each dispatched drawing
    mapState,             \* map_async: "none" | "running" | "done" | "failed"
    pool,                 \* DrawingProcessor.pool: "open"|"closed"|"terminated"
    fcPc,                 \* filter_complete: 0 not called, k at step k
    sentinels,            \* sentinels pushed by this filter_complete
    fail_queue,           \* DrawingProcessor.fail_queue (= failed_drawings)
    build_queue,          \* items of DrawingProcessor.build_queue
    puts,                 \* put() calls on the current build_queue
    acks,                 \* task_done() calls on the current build_queue
    num_builders,         \* DrawingProcessor.num_builders
    builders,             \* DrawingProcessor.builders: seq of [pc, item]
    previous,             \* states of the builders of the pools replaced so far
    log_dispatcher,       \* "running" | "stopped"
    filterFired,          \* filter_callback invocations of the current run
    buildFired,           \* build_callback invocations of the current run
    errorFired,           \* error_callback invocations of the current run
    accepted,             \* drawings put on the build queue in this run
    rejected,             \* drawings put on the fail queue in this run
    nAccepted,            \* number of drawing puts on the build queue
    nRejected,            \* number of entry puts on the fail queue
    dequeued,             \* drawings a builder has dequeued in this run
    getCount,             \* per drawing: queue.get() calls that returned it
    ackCount,             \* per drawing: task_done() calls made for it
    buffer,               \* per producer: records put, not yet on the pipe
    pipe,                 \* records on the pipe of MultiProcessingHandler.queue
    is_closed,            \* MultiProcessingHandler._is_closed
    queue_closed,         \* queue.close() was called in the handler's process
    receive_thread,       \* _receive: [pc, record]
    sink,                 \* records handed to sub_handler.emit, in order
    sink_closed,          \* sub_handler.close() was called
    closePc,              \* close(): "idle" | "joining" | "returned"
    closeCalls,           \* close() calls made so far
    emitted,              \* records put on the queue by emit, in order
    handled,              \* handleError calls made by emit
    beforeClose,          \* records emit had put when close() began
    timedOut,             \* the join in close() returned on its timeout
    emitAfterClose,       \* sub_handler.emit calls made after its close()
    log_queue,            \* LogDispatcher.log_queue: record numbers and None
    logPuts,              \* records put on log_queue so far
    stop_event,           \* LogDispatcher.stop_event is set
    listener,             \* log_listener: "wait" | "stopping" | "exited"
    monitor,              \* QueueListener thread: [pc, record]
    dispatched,           \* records handed to SimpleLogHandler.handle
    putsAtSentinel,       \* logPuts when listener.stop() queued its sentinel
    stopPc                \* LogDispatcher.stop(): "idle"|"joining"|"returned"

hostVars == <<cpu_count, override>>
mphVars == <<buffer, pipe, is_closed, queue_closed, receive_thread, sink,
             sink_closed, closePc, closeCalls, emitted, handled, beforeClose,
             timedOut, emitAfterClose>>
dispVars == <<log_queue, logPuts, stop_event, listener, monitor, dispatched,
              putsAtSentinel, stopPc>>
logVars == <<mphVars, dispVars>>
guiVars == <<gui, blocked, job_running, run_button, has_failed_drawings,
             failed_list, log_dispatcher>>
valVars == <<input, open_drawings, drawings, result, mapState, pool>>
fcVars == <<fcPc, sentinels>>
queueVars == <<fail_queue, build_queue, puts, acks>>
builderVars == <<num_builders, builders, previous>>
cbVars == <<filterFired, buildFired, errorFired>>
histVars == <<accepted, rejected, nAccepted, nRejected, dequeued, getCount,
              ackCount>>

pipelineVars == <<hostVars, runs, guiVars, valVars, fcVars, queueVars,
                  builderVars, cbVars, histVars>>
nonMphVars == <<pipelineVars, dispVars>>
nonDispVars == <<pipelineVars, mphVars>>

vars == <<pipelineVars, logVars>>

\* ---------------------------------------------------------------- helpers
Range(s) == {s[i] : i \in 1..Len(s)}

RemoveAt(s, i) == SubSeq(s, 1, i - 1) \o SubSeq(s, i + 1, Len(s))

Replicate(n, x) == [i \in 1..n |-> x]

\* The index of the first None entry of a fail queue, 0 when there is none.
FirstNone(q) ==
    IF \E i \in 1..Len(q) : q[i] = NoneEntry
    THEN CHOOSE i \in 1..Len(q) :
            q[i] = NoneEntry /\ \A j \in 1..(i - 1) : q[j] # NoneEntry
    ELSE 0

\* ------------------------------------------------------------------- Init
EmptyFailedList == [all |-> <<>>, open |-> <<>>, xref |-> <<>>, unknown |-> <<>>]

Init ==
    /\ cpu_count \in 1..MaxCpu
    /\ override = 0
    /\ runs = 0
    /\ gui = "mainloop"
    /\ blocked = {}
    /\ job_running = FALSE
    /\ run_button = "normal"
    /\ has_failed_drawings = FALSE
    /\ failed_list = EmptyFailedList
    /\ input = <<>>
    /\ open_drawings = {}
    /\ drawings = <<>>
    /\ result = <<>>
    /\ mapState = "none"
    /\ pool = "open"
    /\ fcPc = 0
    /\ sentinels = 0
    /\ fail_queue = <<>>
    /\ build_queue = <<>>
    /\ puts = 0
    /\ acks = 0
    /\ num_builders = 0
    /\ builders = <<>>
    /\ previous = {}
    /\ log_dispatcher = "running"
    /\ filterFired = 0
    /\ buildFired = 0
    /\ errorFired = 0
    /\ accepted = {}
    /\ rejected = {}
    /\ nAccepted = 0
    /\ nRejected = 0
    /\ dequeued = {}
    /\ getCount = <<>>
    /\ ackCount = <<>>
    /\ buffer = [p \in Producers |-> <<>>]
    /\ pipe = <<>>
    /\ is_closed = FALSE
    /\ queue_closed = FALSE
    /\ receive_thread = [pc |-> "loop", record |-> None]
    /\ sink = <<>>
    /\ sink_closed = FALSE
    /\ closePc = "idle"
    /\ closeCalls = 0
    /\ emitted = <<>>
    /\ handled = 0
    /\ beforeClose = 0
    /\ timedOut = FALSE
    /\ emitAfterClose = 0
    /\ log_queue = <<>>
    /\ logPuts = 0
    /\ stop_event = FALSE
    /\ listener = "wait"
    /\ monitor = [pc |-> "dequeue", record |-> None]
    /\ dispatched = <<>>
    /\ putsAtSentinel = 0
    /\ stopPc = "idle"

\* ------------------------------------------------- BatchJobber (gui.py)
\* filtering_done: clears the four lists, then reads the fail queue up to the
\* first None (iter(self.failed_drawings.get, None)); get() blocks on an empty
\* queue, so without a None the reader consumes everything and never returns.
FilteringDone_NoUnknown(q) ==
    LET k == FirstNone(q)
        entries == IF k = 0 THEN q ELSE SubSeq(q, 1, k - 1)
        IsOpen(e) == e.reason = "open"
        IsXref(e) == e.reason = "xref"
        Dwgs(es) == [i \in 1..Len(es) |-> es[i].dwg]
    IN  [returned |-> k # 0,
         queue |-> IF k = 0 THEN <<>> ELSE SubSeq(q, k + 1, Len(q)),
         any |-> entries # <<>>,
         lists |-> [all |-> Dwgs(entries),
                    open |-> Dwgs(SelectSeq(entries, IsOpen)),
                    xref |-> Dwgs(SelectSeq(entries, IsXref)),
                    unknown |-> <<>>]]

FilteringDone_KeepOld(q) ==
    LET k == FirstNone(q)
        entries == IF k = 0 THEN q ELSE SubSeq(q, 1, k - 1)
        IsOpen(e) == e.reason = "open"
        IsXref(e) == e.reason = "xref"
        IsOther(e) == e.reason # "open" /\ e.reason # "xref"
        Dwgs(es) == [i \in 1..Len(es) |-> es[i].dwg]
    IN  [returned |-> k # 0,
         queue |-> IF k = 0 THEN <<>> ELSE SubSeq(q, k + 1, Len(q)),
         any |-> entries # <<>>,
         lists |-> [all |-> failed_list.all \o Dwgs(entries),
                    open |-> failed_list.open \o Dwgs(SelectSeq(entries, IsOpen)),
                    xref |-> failed_list.xref \o Dwgs(SelectSeq(entries, IsXref)),
                    unknown |-> failed_list.unknown
                                \o Dwgs(SelectSeq(entries, IsOther))]]

FilteringDone(q) ==
    LET k == FirstNone(q)
        entries == IF k = 0 THEN q ELSE SubSeq(q, 1, k - 1)
        IsOpen(e) == e.reason = "open"
        IsXref(e) == e.reason = "xref"
        IsOther(e) == e.reason # "open" /\ e.reason # "xref"
        Dwgs(es) == [i \in 1..Len(es) |-> es[i].dwg]
    IN  [returned |-> k # 0,
         queue |-> IF k = 0 THEN <<>> ELSE SubSeq(q, k + 1, Len(q)),
         any |-> entries # <<>>,
         lists |-> [all |-> Dwgs(entries),
                    open |-> Dwgs(SelectSeq(entries, IsOpen)),
                    xref |-> Dwgs(SelectSeq(entries, IsXref)),
                    unknown |-> Dwgs(SelectSeq(entries, IsOther))]]

\* ------------------------------------------- DrawingProcessor (pipeline.py)
\* check_open: a .dwl file of the drawing's name exists in the directory.
check_open(d, dwl) == d \in dwl

\* The open pre-check of process(): `for idx, drawing in enumerate(drawings)`
\* with `del drawings[idx]` inside the loop. idx is the 0-based position of
\* the list iterator, which goes on from idx + 1 in the shortened list.
RECURSIVE PreCheckLoop(_, _, _, _)
PreCheckLoop(lst, idx, dwl, failed) ==
    IF idx >= Len(lst)
    THEN [drawings |-> lst, failed |-> failed]
    ELSE LET d == lst[idx + 1] IN
         IF check_open(d, dwl)
         THEN PreCheckLoop(RemoveAt(lst, idx + 1), idx + 1, dwl,
                           Append(failed, FailEntry(d, "open")))
         ELSE PreCheckLoop(lst, idx + 1, dwl, failed)

Terminate_AllButLast(bs) ==
    [i \in 1..Len(bs) |->
        IF bs[i].pc \in {"exited", "crashed"} \/ i = Len(bs) THEN bs[i]
        ELSE [pc |-> "terminated", item |-> None]]

\* b.terminate() for every builder: a process that has ended stays ended.
Terminate(bs) ==
    [i \in 1..Len(bs) |->
        IF bs[i].pc \in {"exited", "crashed"} THEN bs[i]
        ELSE [pc |-> "terminated", item |-> None]]

\* The states in which reset_builders leaves the builders it replaces.
Left(bs) == {bs[i].pc : i \in 1..Len(bs)}

\* reset_builders: num_builders or mp.cpu_count() fresh Builder processes,
\* all started and about to call queue.get().
NumBuilders(n) == IF n # 0 THEN n ELSE cpu_count

NewBuilders(n) == Replicate(NumBuilders(n), [pc |-> "get", item |-> None])

\* BatchJobber.run followed by DrawingProcessor.process, up to its return to
\* the Tk main loop. n drawings are selected, dwl are the open ones.
RunUpTo(limit, n, dwl) ==
    /\ gui = "mainloop" /\ "main" \notin blocked
    /\ run_button = "normal"
    /\ runs < limit
    /\ LET lst == [i \in 1..n |-> i]
           pre == PreCheckLoop(lst, 0, dwl, <<>>)
           fq == fail_queue \o pre.failed
           rd == FilteringDone(fq)
       IN  /\ runs' = runs + 1
           /\ input' = lst
           /\ open_drawings' = dwl
           /\ drawings' = pre.drawings
           /\ run_button' = "disabled"
           /\ job_running' = TRUE
           /\ rejected' = {pre.failed[i].dwg : i \in 1..Len(pre.failed)}
           /\ nRejected' = Len(pre.failed)
           /\ accepted' = {}
           /\ nAccepted' = 0
           /\ dequeued' = {}
           /\ getCount' = [d \in Range(lst) |-> 0]
           /\ ackCount' = [d \in Range(lst) |-> 0]
           /\ buildFired' = 0
           /\ errorFired' = 0
           /\ fcPc' = 0
           /\ sentinels' = 0
           \* reset_builders(drawing_dir)
           /\ previous' = previous \cup Left(Terminate(builders))
           /\ builders' = NewBuilders(0)
           /\ num_builders' = NumBuilders(0)
           /\ build_queue' = <<>>
           /\ puts' = 0
           /\ acks' = 0
           /\ IF pre.drawings = <<>>
              THEN \* filter_callback() runs filtering_done in this thread;
                   \* error_callback() is then called without its argument,
                   \* which raises TypeError out of process() and run().
                   /\ filterFired' = 1
                   /\ fail_queue' = rd.queue
                   /\ failed_list' = rd.lists
                   /\ has_failed_drawings' = rd.any
                   /\ blocked' = IF rd.returned THEN blocked
                                 ELSE blocked \cup {"main"}
                   /\ result' = <<>>
                   /\ mapState' = "none"
                   /\ UNCHANGED pool
              ELSE /\ filterFired' = 0
                   /\ fail_queue' = fq
                   /\ has_failed_drawings' = FALSE
                   /\ pool' = "open"
                   /\ mapState' = "running"
                   /\ result' = [d \in Range(pre.drawings) |-> "pending"]
                   /\ UNCHANGED <<failed_list, blocked>>
    /\ UNCHANGED <<hostVars, logVars, gui, log_dispatcher>>

Run(n, dwl) == RunUpTo(MaxRuns, n, dwl)

\* ---------------------------------------------------- validation pool
\* mp.Pool() has cpu_count workers and map_async hands the drawings out in
\* list order (chunks of one drawing for lists of up to 4 * cpu_count), so a
\* drawing whose check can finish next is one of the first cpu_count
\* drawings that are still pending.
Pending == {d \in DOMAIN result : result[d] = "pending"}

InFlight(d) ==
    /\ d \in Pending
    /\ Cardinality({e \in Pending : e < d}) < cpu_count

\* check_drawing after the external check returned (or raised) with outcome o.
\* The puts it makes: the drawing on pass_queue or an entry on fail_queue.
PassPut_XrefToo(d, o) == IF o \in {"pass", "xref"} THEN <<d>> ELSE <<>>

PassPut(d, o) == IF o = "pass" THEN <<d>> ELSE <<>>

FailPut(d, o) == IF o = "xref" THEN <<FailEntry(d, "xref")>> ELSE <<>>

check_drawing(d, o) ==
    /\ mapState = "running"
    /\ pool = "open"
    /\ InFlight(d)
    /\ result' = [result EXCEPT ![d] = o]
    /\ build_queue' = build_queue \o PassPut(d, o)
    /\ puts' = puts + Len(PassPut(d, o))
    /\ accepted' = accepted \cup Range(PassPut(d, o))
    /\ nAccepted' = nAccepted + Len(PassPut(d, o))
    /\ fail_queue' = fail_queue \o FailPut(d, o)
    /\ rejected' = rejected \cup {FailPut(d, o)[i].dwg : i \in 1..Len(FailPut(d, o))}
    /\ nRejected' = nRejected + Len(FailPut(d, o))
    /\ UNCHANGED <<hostVars, logVars, runs, guiVars, input, open_drawings, drawings, mapState, pool,
                   fcVars, acks, builderVars, cbVars, dequeued, getCount,
                   ackCount>>

\* The pool's result handler once every check of the map has ended: with no
\* exception it calls callback=self.filter_complete; with an exception it
\* would call map_async's error_callback, and process() passes none.
\* map_async is given callback= only: the pool has no error_callback to call.
map_error_callback == FALSE

MapOutcome == IF \E d \in DOMAIN result : result[d] = "raised"
              THEN "failed" ELSE "done"

MapComplete_BeforeAllChecks ==
    /\ mapState = "running"
    /\ mapState' = MapOutcome
    /\ fcPc' = IF MapOutcome = "done" THEN 1 ELSE fcPc
    /\ errorFired' = IF MapOutcome = "failed" /\ map_error_callback
                      THEN errorFired + 1 ELSE errorFired
    /\ UNCHANGED <<hostVars, logVars, runs, guiVars, input, open_drawings, drawings, result, pool,
                   sentinels, queueVars, builderVars, filterFired, buildFired,
                   histVars>>

MapComplete ==
    /\ mapState = "running"
    /\ Pending = {}
    /\ mapState' = MapOutcome
    /\ fcPc' = IF MapOutcome = "done" THEN 1 ELSE fcPc
    /\ errorFired' = IF MapOutcome = "failed" /\ map_error_callback
                      THEN errorFired + 1 ELSE errorFired
    /\ UNCHANGED <<hostVars, logVars, runs, guiVars, input, open_drawings, drawings, result, pool,
                   sentinels, queueVars, builderVars, filterFired, buildFired,
                   histVars>>

\* ------------------------------------------------------ filter_complete
\* The statements of filter_complete in program order.
FilterCompleteSteps_FilterCallbackLast ==
    <<"pool_close", "fail_put", "sentinels", "join", "build_callback",
      "filter_callback">>

FilterCompleteSteps ==
    <<"pool_close", "fail_put", "sentinels", "filter_callback", "join",
      "build_callback">>

StepIndex(step) ==
    CHOOSE i \in 1..Len(FilterCompleteSteps) : FilterCompleteSteps[i] = step

FcReturned == fcPc = Len(FilterCompleteSteps) + 1

FcAt(step) ==
    /\ fcPc \in 1..Len(FilterCompleteSteps)
    /\ FilterCompleteSteps[fcPc] = step
    /\ "filter_complete" \notin blocked

\* self.pool.close()
FcPoolClose ==
    /\ FcAt("pool_close")
    /\ pool' = "closed"
    /\ fcPc' = fcPc + 1
    /\ UNCHANGED <<hostVars, logVars, runs, guiVars, input, open_drawings, drawings, result, mapState,
                   sentinels, queueVars, builderVars, cbVars, histVars>>

\* self.fail_queue.put(None)
FcFailPut ==
    /\ FcAt("fail_put")
    /\ fail_queue' = Append(fail_queue, NoneEntry)
    /\ fcPc' = fcPc + 1
    /\ UNCHANGED <<hostVars, logVars, runs, guiVars, valVars, sentinels, build_queue,
                   puts, acks, builderVars, cbVars, histVars>>

\* for _ in range(self.num_builders): self.build_queue.put(None)
SentinelCount_OneShort == num_builders - 1

SentinelCount == num_builders

FcSentinel ==
    /\ FcAt("sentinels")
    /\ IF sentinels < SentinelCount
       THEN /\ build_queue' = Append(build_queue, None)
            /\ puts' = puts + 1
            /\ sentinels' = sentinels + 1
            /\ UNCHANGED fcPc
       ELSE /\ fcPc' = fcPc + 1
            /\ UNCHANGED <<build_queue, puts, sentinels>>
    /\ UNCHANGED <<hostVars, logVars, runs, guiVars, valVars, fail_queue, acks,
                   builderVars, cbVars, histVars>>

\* if self.filter_callback: self.filter_callback()
\* The callback generates <<filter_finished>>, handled by filtering_done
\* before event_generate returns. The warning box filtering_done may show is
\* taken as dismissed by the user.
FcFilterCallback ==
    /\ FcAt("filter_callback")
    /\ LET rd == FilteringDone(fail_queue) IN
        /\ filterFired' = filterFired + 1
        /\ fail_queue' = rd.queue
        /\ failed_list' = rd.lists
        /\ has_failed_drawings' = (has_failed_drawings \/ rd.any)
        /\ IF rd.returned
           THEN fcPc' = fcPc + 1 /\ UNCHANGED blocked
           ELSE blocked' = blocked \cup {"filter_complete"} /\ UNCHANGED fcPc
    /\ UNCHANGED <<hostVars, logVars, runs, gui, job_running, run_button,
                   log_dispatcher, valVars, sentinels, build_queue, puts, acks,
                   builderVars, buildFired, errorFired, histVars>>

\* self.build_queue.join() returns when every put has its task_done.
JoinReturns_NoWait == TRUE

JoinReturns == puts = acks

FcJoin ==
    /\ FcAt("join")
    /\ JoinReturns
    /\ fcPc' = fcPc + 1
    /\ UNCHANGED <<hostVars, logVars, runs, guiVars, valVars, sentinels, queueVars,
                   builderVars, cbVars, histVars>>

\* if self.build_callback: self.build_callback()
\* The callback generates <<build_finished>>, handled by processing_done.
FcBuildCallback ==
    /\ FcAt("build_callback")
    /\ buildFired' = buildFired + 1
    /\ run_button' = "normal"
    /\ job_running' = FALSE
    /\ fcPc' = fcPc + 1
    /\ UNCHANGED <<hostVars, logVars, runs, gui, blocked, has_failed_drawings,
                   failed_list, log_dispatcher, valVars, sentinels, queueVars,
                   builderVars, filterFired, errorFired, histVars>>

\* ------------------------------------------------------------- Builder
Live(b) == builders[b].pc \in {"get", "sentinel", "build", "ack"}

BuilderGet_Peek(b) ==
    /\ builders[b].pc = "get"
    /\ build_queue # <<>>
    /\ LET drawing == Head(build_queue) IN
        /\ builders' = [builders EXCEPT ![b] =
              [pc |-> IF drawing = None THEN "sentinel" ELSE "build",
               item |-> drawing]]
        /\ dequeued' = IF drawing = None THEN dequeued
                       ELSE dequeued \cup {drawing}
        /\ getCount' = IF drawing = None THEN getCount
                       ELSE [getCount EXCEPT ![drawing] = @ + 1]
    /\ build_queue' = build_queue
    /\ UNCHANGED <<hostVars, logVars, runs, guiVars, valVars, fcVars, fail_queue, puts,
                   acks, num_builders, previous, cbVars, accepted, rejected, nAccepted,
                   nRejected, ackCount>>

BuilderGet_AfterValidation(b) ==
    /\ builders[b].pc = "get"
    /\ build_queue # <<>>
    /\ mapState # "running"
    /\ LET drawing == Head(build_queue) IN
        /\ builders' = [builders EXCEPT ![b] =
              [pc |-> IF drawing = None THEN "sentinel" ELSE "build",
               item |-> drawing]]
        /\ dequeued' = IF drawing = None THEN dequeued
                       ELSE dequeued \cup {drawing}
        /\ getCount' = IF drawing = None THEN getCount
                       ELSE [getCount EXCEPT ![drawing] = @ + 1]
    /\ build_queue' = Tail(build_queue)
    /\ UNCHANGED <<hostVars, logVars, runs, guiVars, valVars, fcVars, fail_queue, puts,
                   acks, num_builders, previous, cbVars, accepted, rejected, nAccepted,
                   nRejected, ackCount>>

\* drawing = self.queue.get(): blocks while the queue is empty.
BuilderGet(b) ==
    /\ builders[b].pc = "get"
    /\ build_queue # <<>>
    /\ LET drawing == Head(build_queue) IN
        /\ builders' = [builders EXCEPT ![b] =
              [pc |-> IF drawing = None THEN "sentinel" ELSE "build",
               item |-> drawing]]
        /\ dequeued' = IF drawing = None THEN dequeued
                       ELSE dequeued \cup {drawing}
        /\ getCount' = IF drawing = None THEN getCount
                       ELSE [getCount EXCEPT ![drawing] = @ + 1]
    /\ build_queue' = Tail(build_queue)
    /\ UNCHANGED <<hostVars, logVars, runs, guiVars, valVars, fcVars, fail_queue, puts,
                   acks, num_builders, previous, cbVars, accepted, rejected, nAccepted,
                   nRejected, ackCount>>

\* if drawing is None: self.queue.task_done(); break
BuilderSentinel(b) ==
    /\ builders[b].pc = "sentinel"
    /\ acks' = acks + 1
    /\ builders' = [builders EXCEPT ![b] = [pc |-> "exited", item |-> None]]
    /\ UNCHANGED <<hostVars, logVars, runs, guiVars, valVars, fcVars, fail_queue,
                   build_queue, puts, num_builders, previous, cbVars, histVars>>

\* build_drawing: sp.check_call returns 0 for exit status zero and raises
\* CalledProcessError for any other status; run() catches nothing, so the
\* exception ends the Builder process before its task_done.
build_drawing(status) == IF status = "zero" THEN "ack" ELSE "crashed"

BuilderBuild(b, status) ==
    /\ builders[b].pc = "build"
    /\ builders' = [builders EXCEPT ![b].pc = build_drawing(status)]
    /\ UNCHANGED <<hostVars, logVars, runs, guiVars, valVars, fcVars, queueVars,
                   num_builders, previous, cbVars, histVars>>

\* self.queue.task_done() after a build, then the next queue.get().
BuilderAck(b) ==
    /\ builders[b].pc = "ack"
    /\ acks' = acks + 1
    /\ ackCount' = [ackCount EXCEPT ![builders[b].item] = @ + 1]
    /\ builders' = [builders EXCEPT ![b] = [pc |-> "get", item |-> None]]
    /\ UNCHANGED <<hostVars, logVars, runs, guiVars, valVars, fcVars, fail_queue,
                   build_queue, puts, num_builders, previous, cbVars, accepted, rejected,
                   nAccepted, nRejected, dequeued, getCount>>

\* ------------------------------------------------------------- on_quit
\* With a job running: a warning box and nothing else. Otherwise
\* drawing_filter.stop(), log_dispatcher.stop() and master.destroy().
on_quit_Unchecked ==
    /\ gui = "mainloop" /\ "main" \notin blocked
    /\ builders' = Terminate(builders)
    /\ pool' = "terminated"
    /\ log_dispatcher' = "stopped"
    /\ gui' = "destroyed"
    /\ UNCHANGED <<hostVars, logVars, runs, blocked, job_running, run_button,
                   has_failed_drawings, failed_list, input, open_drawings, drawings, result,
                   mapState, fcVars, queueVars, num_builders, previous, cbVars,
                   histVars>>

on_quit ==
    /\ gui = "mainloop" /\ "main" \notin blocked
    /\ IF job_running
       THEN UNCHANGED vars
       ELSE /\ builders' = Terminate(builders)
            /\ pool' = "terminated"
            /\ log_dispatcher' = "stopped"
            /\ gui' = "destroyed"
            /\ UNCHANGED <<hostVars, logVars, runs, blocked, job_running, run_button,
                           has_failed_drawings, failed_list, input, open_drawings, drawings,
                           result, mapState, fcVars, queueVars, num_builders, previous,
                           cbVars, histVars>>

\* ------------------------------------------------- DrawingProcessor API
\* DrawingProcessor driven through its public methods by a caller whose
\* callbacks return at once: what process() and filter_complete do when
\* filter_callback, build_callback and error_callback are opaque.

\* No map is in progress and no filter_complete call is under way.
Quiescent == mapState # "running" /\ (fcPc = 0 \/ FcReturned)

\* DrawingProcessor.process(drawings = [1..n], ...), the drawings of dwl
\* being open in AutoCAD. With no drawing left after the pre-check it calls
\* filter_callback() and error_callback() itself and returns.
process(n, dwl) ==
    /\ pool # "terminated"
    /\ LET lst == [i \in 1..n |-> i]
           pre == PreCheckLoop(lst, 0, dwl, <<>>)
       IN  /\ runs' = runs + 1
           /\ input' = lst
           /\ open_drawings' = dwl
           /\ drawings' = pre.drawings
           /\ fail_queue' = fail_queue \o pre.failed
           /\ rejected' = {pre.failed[i].dwg : i \in 1..Len(pre.failed)}
           /\ nRejected' = Len(pre.failed)
           /\ accepted' = {}
           /\ nAccepted' = 0
           /\ dequeued' = {}
           /\ getCount' = [d \in Range(lst) |-> 0]
           /\ ackCount' = [d \in Range(lst) |-> 0]
           /\ buildFired' = 0
           /\ fcPc' = 0
           /\ sentinels' = 0
           \* reset_builders(drawing_dir)
           /\ previous' = previous \cup Left(Terminate(builders))
           /\ builders' = NewBuilders(0)
           /\ num_builders' = NumBuilders(0)
           /\ build_queue' = <<>>
           /\ puts' = 0
           /\ acks' = 0
           /\ IF pre.drawings = <<>>
              THEN /\ filterFired' = 1
                   /\ errorFired' = 1
                   /\ result' = <<>>
                   /\ mapState' = "none"
                   /\ UNCHANGED pool
              ELSE /\ filterFired' = 0
                   /\ errorFired' = 0
                   /\ pool' = "open"
                   /\ mapState' = "running"
                   /\ result' = [d \in Range(pre.drawings) |-> "pending"]
    /\ UNCHANGED <<hostVars, logVars, guiVars>>

\* The caller takes what is on the fail queue it handed to __init__, without
\* blocking, while the pipeline is quiescent.
ReadFailures ==
    /\ Quiescent
    /\ fail_queue # <<>>
    /\ fail_queue' = <<>>
    /\ UNCHANGED <<hostVars, logVars, runs, guiVars, valVars, fcVars, build_queue,
                   puts, acks, builderVars, cbVars, histVars>>

\* A process() call made while the pipeline is quiescent, by a caller that
\* has read the fail queue empty.
ApiCallUpTo(limit, n, dwl) ==
    /\ Quiescent
    /\ fail_queue = <<>>
    /\ runs < limit
    /\ process(n, dwl)

ApiCall(n, dwl) == ApiCallUpTo(MaxRuns, n, dwl)

\* A process() call made during a run's build phase, while filter_complete
\* waits in build_queue.join() for builds that have not been acknowledged.
\* reset_builders terminates the builders and replaces self.build_queue, so
\* the waiting filter_complete stays in join() on the old queue for good;
\* the state from here on is that of the new run.
ReentrantCall(n, dwl) ==
    /\ FcAt("join") /\ puts # acks
    /\ runs < MaxRuns + 1
    /\ process(n, dwl)

\* reset_builders(drawing_dir, num_builders = n) called by the caller on a
\* quiescent pipeline, to have n builders instead of cpu_count.
reset_builders(n) ==
    /\ Quiescent
    /\ pool # "terminated"
    /\ override' = n
    /\ previous' = previous \cup Left(Terminate(builders))
    /\ builders' = NewBuilders(n)
    /\ num_builders' = NumBuilders(n)
    /\ build_queue' = <<>>
    /\ puts' = 0
    /\ acks' = 0
    /\ UNCHANGED <<cpu_count, logVars, runs, guiVars, valVars, fcVars,
                   fail_queue,
                   cbVars, histVars>>

\* if self.filter_callback: self.filter_callback()
ApiFilterCallback ==
    /\ FcAt("filter_callback")
    /\ filterFired' = filterFired + 1
    /\ fcPc' = fcPc + 1
    /\ UNCHANGED <<hostVars, logVars, runs, guiVars, valVars, sentinels, queueVars,
                   builderVars, buildFired, errorFired, histVars>>

\* if self.build_callback: self.build_callback()
ApiBuildCallback ==
    /\ FcAt("build_callback")
    /\ buildFired' = buildFired + 1
    /\ fcPc' = fcPc + 1
    /\ UNCHANGED <<hostVars, logVars, runs, guiVars, valVars, sentinels, queueVars,
                   builderVars, filterFired, errorFired, histVars>>

\* DrawingProcessor.stop(), called while the pipeline is quiescent.
stop ==
    /\ Quiescent
    /\ pool # "terminated"
    /\ builders' = Terminate(builders)
    /\ pool' = "terminated"
    /\ UNCHANGED <<hostVars, logVars, runs, guiVars, input, open_drawings, drawings, result,
                   mapState, fcVars, queueVars, num_builders, previous, cbVars,
                   histVars>>

\* ---------------------------------------------------------- specification
Validate == \E d \in DOMAIN result : \E o \in CheckOutcomes : check_drawing(d, o)

FilterComplete ==
    \/ FcPoolClose
    \/ FcFailPut
    \/ FcSentinel
    \/ FcFilterCallback
    \/ FcJoin
    \/ FcBuildCallback

Build ==
    \E b \in DOMAIN builders :
        \/ BuilderGet(b)
        \/ BuilderSentinel(b)
        \/ \E status \in BuildStatuses : BuilderBuild(b, status)
        \/ BuilderAck(b)

Next ==
    \/ \E n \in 1..MaxItems : \E dwl \in SUBSET (1..n) : Run(n, dwl)
    \/ Validate
    \/ MapComplete
    \/ FilterComplete
    \/ Build
    \/ on_quit

Spec == Init /\ [][Next]_vars

\* The pool workers, the pool's result handler thread (which runs
\* filter_complete) and the Builder processes are scheduled by the operating
\* system: each keeps running while it has a step to take. The user's
\* actions (Run, on_quit) are under no obligation.
FairSpec ==
    /\ Spec
    /\ WF_vars(Validate)
    /\ WF_vars(MapComplete)
    /\ WF_vars(FilterComplete)
    /\ \A b \in 1..(MaxCpu + 1) : WF_vars(b \in DOMAIN builders /\
            (BuilderGet(b) \/ BuilderSentinel(b) \/ BuilderAck(b)
             \/ \E status \in BuildStatuses : BuilderBuild(b, status)))

\* The application on a host with one CPU, followed through one job more
\* than Spec follows.
SeqInit == Init /\ cpu_count = 1

SeqNext ==
    \/ \E n \in 1..MaxItems : \E dwl \in SUBSET (1..n) :
          RunUpTo(MaxRuns + 1, n, dwl)
    \/ Validate
    \/ MapComplete
    \/ FilterComplete
    \/ Build
    \/ on_quit

SeqSpec == SeqInit /\ [][SeqNext]_vars

ApiFilterComplete ==
    \/ FcPoolClose
    \/ FcFailPut
    \/ FcSentinel
    \/ ApiFilterCallback
    \/ FcJoin
    \/ ApiBuildCallback

ApiNext ==
    \/ \E n \in 0..MaxItems : \E dwl \in SUBSET (1..n) : ApiCall(n, dwl)
    \/ Validate
    \/ MapComplete
    \/ ApiFilterComplete
    \/ Build
    \/ ReadFailures
    \/ stop

\* The pipeline under a caller that uses the API directly.
ApiSpec == Init /\ [][ApiNext]_vars

ReentrantNext ==
    \/ ApiNext
    \/ \E n \in 0..MaxItems : \E dwl \in SUBSET (1..n) : ReentrantCall(n, dwl)

\* The pipeline under a caller that calls process() again after a run.
SeqApiNext ==
    \/ \E n \in 0..MaxItems : \E dwl \in SUBSET (1..n) :
          ApiCallUpTo(MaxRuns + 1, n, dwl)
    \/ Validate
    \/ MapComplete
    \/ ApiFilterComplete
    \/ Build
    \/ ReadFailures
    \/ stop

SeqApiSpec == Init /\ [][SeqApiNext]_vars

\* The pipeline under a caller that also calls process() during a run.
ReentrantSpec == Init /\ [][ReentrantNext]_vars

OverrideNext ==
    \/ ApiNext
    \/ \E n \in 1..(MaxCpu + 1) : reset_builders(n)

\* The pipeline under a caller that also sets the number of builders.
OverrideSpec == Init /\ [][OverrideNext]_vars

\* ------------------------------------------------- filtering_done alone
\* filtering_done applied to any queue of entries that ends with None, the
\* reasons being the two the pipeline produces and one it does not.
Reasons == {"open", "xref", "other"}

ReportEntries == {FailEntry(d, r) : d \in 1..MaxItems, r \in Reasons}

ReportQueues == UNION {[1..k -> ReportEntries] : k \in 0..MaxReport}

FailurePut(es) ==
    /\ runs = 0 /\ filterFired = 0
    /\ fail_queue = <<>>
    /\ fail_queue' = Append(es, NoneEntry)
    /\ UNCHANGED <<hostVars, logVars, runs, guiVars, valVars, fcVars, build_queue,
                   puts, acks, builderVars, cbVars, histVars>>

ReportRead ==
    /\ runs = 0
    /\ fail_queue # <<>>
    /\ LET rd == FilteringDone(fail_queue) IN
        /\ rd.returned
        /\ fail_queue' = rd.queue
        /\ failed_list' = rd.lists
        /\ has_failed_drawings' = (has_failed_drawings \/ rd.any)
    /\ filterFired' = filterFired + 1
    /\ UNCHANGED <<hostVars, logVars, runs, gui, blocked, job_running, run_button,
                   log_dispatcher, valVars, fcVars, build_queue, puts, acks,
                   builderVars, buildFired, errorFired, histVars>>

ReportNext ==
    \/ \E es \in ReportQueues : FailurePut(es)
    \/ ReportRead

ReportSpec == Init /\ [][ReportNext]_vars

\* ------------------------------------------------------------ properties
Passed == {d \in DOMAIN result : result[d] = "pass"}

Indeterminate == {d \in DOMAIN result : result[d] = "indet"}

Raised == {d \in DOMAIN result : result[d] = "raised"}

LiveBuilders == {b \in DOMAIN builders : Live(b)}

\* Builders that are running and have not dequeued a sentinel.
AwaitingSentinel == {b \in DOMAIN builders : builders[b].pc \in {"get", "build", "ack"}}

QueuedSentinels == {i \in DOMAIN build_queue : build_queue[i] = None}

\* C1: build_callback is never invoked while an item put on the run's build
\* queue (a drawing or a sentinel) has no task_done yet: once join() has
\* returned and once build_callback has fired, the number of task_done calls
\* equals the number of puts.
C1_BuildDoneAfterAllAcknowledged ==
    /\ (buildFired > 0 => acks = puts)
    /\ (fcPc > StepIndex("join") => acks = puts)

C1_Witness ==
    /\ buildFired = 1
    /\ nAccepted >= 1
    /\ puts = nAccepted + num_builders
    /\ acks = puts

\* C2: in every run build_callback fires only after filter_callback has fired.
C2_FilterDoneBeforeBuildDone == buildFired > 0 => filterFired > 0

C2_Witness == buildFired = 1 /\ filterFired = 1 /\ FcReturned

\* C3: once filter_complete runs, every input drawing has been put on exactly
\* one of the build queue and the fail queue: accepted + rejected = inputs.
C3_AcceptedRejectedPartition ==
    fcPc >= 1 =>
        /\ nAccepted + nRejected = Len(input)
        /\ accepted \cap rejected = {}
        /\ accepted \cup rejected = Range(input)

\* C4: a drawing is on the build queue, or dequeued by a builder, only if its
\* own check passed, and when the run's build is done the drawings dequeued
\* by the builders are exactly the drawings whose check passed.
C4_BuiltExactlyThePassed ==
    /\ \A i \in DOMAIN build_queue :
            build_queue[i] # None => build_queue[i] \in Passed
    /\ accepted \subseteq Passed
    /\ dequeued \subseteq Passed
    /\ \A b \in DOMAIN builders :
            builders[b].item # None => builders[b].item \in Passed
    /\ (buildFired > 0 => dequeued = Passed)

C4_Witness ==
    /\ buildFired = 1
    /\ dequeued # {}
    /\ \E d \in DOMAIN result : result[d] = "xref"

\* C5: with fair scheduling and every external check returning, every run
\* that dispatched a non-empty list to the validation pool eventually has
\* its sentinels pushed, filter_callback invoked, join() returned and
\* build_callback invoked, whatever the builds' exit statuses.
C5_RunReachesBuildDone ==
    (mapState = "running") ~>
        \/ Raised # {}
        \/ /\ sentinels = num_builders
           /\ filterFired = 1
           /\ fcPc > StepIndex("join")
           /\ buildFired = 1

\* C6: when filter_complete starts pushing sentinels, as many builders are
\* alive as sentinels will be pushed, and no sentinel stays undelivered: the
\* sentinels waiting in the queue never outnumber the running builders that
\* have not had theirs.
C6_OneSentinelPerLiveBuilder ==
    /\ (FcAt("sentinels") /\ sentinels = 0
            => SentinelCount = Cardinality(LiveBuilders))
    /\ Cardinality(QueuedSentinels) <= Cardinality(AwaitingSentinel)

\* C7: with N = cpu_count builders, filter_complete pushes exactly N
\* sentinels, and build_callback is invoked at most once in a run and exactly
\* once in a run whose filter_complete has returned.
C7_NSentinelsOneBuildDone ==
    /\ sentinels <= num_builders
    /\ (fcPc >= 1 => num_builders = cpu_count)
    /\ (fcPc > StepIndex("sentinels") => sentinels = cpu_count)
    /\ buildFired <= 1
    /\ (FcReturned => buildFired = 1)

C7_Witness ==
    /\ FcReturned
    /\ buildFired = 1
    /\ cpu_count = MaxCpu
    /\ sentinels = MaxCpu
    /\ \A b \in DOMAIN builders : builders[b].pc = "exited"

\* C8: a builder that dequeued a drawing acknowledges it whatever the build's
\* exit status: a builder holding a drawing is alive (it goes on to its
\* task_done), and no builder ends with a drawing unacknowledged.
C8_BuildAlwaysAcknowledged ==
    \A b \in DOMAIN builders : builders[b].item # None => Live(b)

\* C9: a run in which some check was indeterminate (check_drawing returned
\* False) does not fire build_callback, and has fired error_callback by the
\* time filter_complete has returned.
C9_IndeterminateAbortsRun ==
    Indeterminate # {} =>
        /\ buildFired = 0
        /\ (FcReturned => errorFired > 0)

\* C10: a run in which a check raised ends with error_callback invoked: once
\* the pool has handled the failed map, error_callback has fired.
C10_ExceptionReachesOnError ==
    (Raised # {} /\ mapState # "running") => (errorFired > 0 /\ buildFired = 0)


\* C11: a run in which every check passed or rejected its drawing never
\* invokes error_callback, the run in which every drawing is rejected
\* included: rejections go to the fail queue only.
C11_RejectionsNeverReachOnError ==
    (nRejected > 0 /\ Indeterminate = {} /\ Raised = {}) => errorFired = 0

\* C12: process() called with an empty list invokes filter_callback and then
\* build_callback as the terminal callback, not error_callback; nothing
\* enters the fail queue and no builder dequeues a drawing.
C12_EmptyListRunsToBuildDone ==
    (runs > 0 /\ input = <<>>) =>
        /\ filterFired = 1
        /\ buildFired <= filterFired
        /\ errorFired = 0
        /\ nRejected = 0
        /\ dequeued = {}

\* C13: a run in which every drawing is rejected still completes: once its
\* terminal callback has fired, filter_callback has fired, nothing waits on
\* the build queue and every builder started for the run has taken a
\* sentinel and exited.
C13_ZeroAcceptedRunCompletes ==
    (/\ runs > 0 /\ input # <<>>
     /\ Pending = {} /\ nAccepted = 0 /\ nRejected = Len(input)
     /\ buildFired + errorFired > 0
     /\ pool # "terminated") =>
        /\ filterFired = 1
        /\ puts = acks
        /\ \A b \in DOMAIN builders : builders[b].pc = "exited"

\* C14: a process() call made while a run is active starts no second run:
\* the run's builders are not terminated or replaced, its build queue is not
\* replaced, and nothing is added to the fail queue by a new pre-check.
C14_NoSecondRunWhileActive ==
    [][~Quiescent =>
        /\ runs' = runs
        /\ Len(builders') = Len(builders)
        /\ \A b \in DOMAIN builders :
              builders[b].pc # "terminated" => builders'[b].pc # "terminated"
        /\ puts' >= puts /\ acks' >= acks
        /\ input' = input]_vars

\* C15: while a job is running an abort is refused: on_quit returns after
\* its warning, so no builder and no validation worker is terminated, the
\* log dispatcher keeps running and the window stays.
C15_AbortRefusedWhileRunning ==
    job_running =>
        /\ gui = "mainloop"
        /\ log_dispatcher = "running"
        /\ pool # "terminated"
        /\ \A b \in DOMAIN builders : builders[b].pc # "terminated"

\* A job with a check and a build in progress, in which on_quit can be (and,
\* being refused, has been) called without a change of state.
C15_Witness ==
    /\ job_running
    /\ ENABLED on_quit
    /\ mapState = "running"
    /\ \E b \in DOMAIN builders : builders[b].pc = "build"

\* C16: an abort with no run active terminates every builder and the
\* validation pool at once: after stop() no builder is alive and no map is
\* running, and stop() pushed no sentinel (every put on the build queue is
\* an accepted drawing or a sentinel of filter_complete).
C16_AbortTerminatesAllWorkers ==
    pool = "terminated" =>
        /\ \A b \in DOMAIN builders : ~Live(b)
        /\ mapState # "running"
        /\ puts = nAccepted + sentinels

\* stop() after a run that ended with its builders still waiting in get().
C16_Witness ==
    /\ pool = "terminated"
    /\ errorFired = 1
    /\ sentinels = 0 /\ puts = 0
    /\ builders # <<>>
    /\ \A b \in DOMAIN builders : builders[b].pc = "terminated"

C18_CompletionAfterAllChecks ==
    /\ fcPc >= 1 => Pending = {}
    /\ sentinels > 0 => Pending = {}
    /\ filterFired > 0 => Pending = {}
    /\ \A i, j \in DOMAIN build_queue :
          (i < j /\ build_queue[i] = None) => build_queue[j] = None

\* Sentinels queued behind an accepted drawing after two checks.
C18_Witness ==
    /\ Len(input) = MaxItems
    /\ fcPc > StepIndex("sentinels")
    /\ \E i, j \in DOMAIN build_queue :
          i < j /\ build_queue[i] # None /\ build_queue[j] = None

\* C19: with the builders taking from the shared build queue concurrently,
\* no drawing is dequeued twice or held by two builders, none is
\* acknowledged more often than it was dequeued, task_done calls never
\* exceed puts, and when join() has returned every accepted drawing has been
\* dequeued exactly once and acknowledged exactly once.
C19_EachItemBuiltOnce ==
    /\ \A d \in DOMAIN getCount :
          getCount[d] <= 1 /\ ackCount[d] <= getCount[d]
    /\ \A b1, b2 \in DOMAIN builders :
          (b1 # b2 /\ builders[b1].item # None) =>
              builders[b1].item # builders[b2].item
    /\ acks <= puts
    /\ fcPc > StepIndex("join") =>
          \A d \in accepted : getCount[d] = 1 /\ ackCount[d] = 1

\* Two builders at work on two different drawings at the same time.
C19_Witness ==
    \E b1, b2 \in DOMAIN builders :
        /\ b1 # b2
        /\ builders[b1].pc = "build" /\ builders[b2].pc = "build"
        /\ getCount[builders[b1].item] = 1 /\ getCount[builders[b2].item] = 1

\* C20: a run ends with exactly one terminal callback: never both
\* build_callback and error_callback, never either of them twice, and never
\* none once the run's map has failed or its filter_complete has returned.
C20_ExactlyOneTerminalCallback ==
    /\ buildFired + errorFired <= 1
    /\ (mapState = "failed" \/ FcReturned) => buildFired + errorFired = 1

\* C21: validation and building are pipelined: a drawing is on the build
\* queue from the step in which its own check passed, and a builder waiting
\* in get() can take it whether or not other checks of the run are pending.
C21_BuildStartsDuringValidation ==
    /\ \A d \in Passed : d \in accepted
    /\ \A b \in DOMAIN builders :
          (builders[b].pc = "get" /\ build_queue # <<>>) => ENABLED BuilderGet(b)

\* A builder at work on one drawing while another drawing's check is
\* pending and filter_complete has not been called.
C21_Witness ==
    /\ mapState = "running" /\ fcPc = 0
    /\ Pending # {}
    /\ \E b \in DOMAIN builders :
          builders[b].pc = "build" /\ builders[b].item \in Passed

\* C22: a builder count n > 0 given to reset_builders applies to the runs
\* that follow: process() starts exactly n builders and filter_complete
\* pushes exactly n sentinels; with no override the count is cpu_count.
C22_OverrideAppliesToLaterRuns ==
    /\ (override = 0 /\ runs > 0) => num_builders = cpu_count
    /\ override > 0 =>
          /\ num_builders = override
          /\ Len(builders) = override
          /\ sentinels <= override
          /\ fcPc > StepIndex("sentinels") => sentinels = override

\* C23: when the fail queue is read, every entry before the None is listed
\* in 'all' and in exactly one bucket: 'open' and 'xref' entries in the
\* bucket of that name, entries with any other reason in 'unknown'; 'all'
\* is as long as the three buckets together.
C23_EveryEntryInOneBucket ==
    LET rd == FilteringDone(fail_queue)
        k == FirstNone(fail_queue)
        es == IF k = 0 THEN fail_queue ELSE SubSeq(fail_queue, 1, k - 1)
        With(r) == {i \in 1..Len(es) : es[i].reason = r}
        Others == {i \in 1..Len(es) : es[i].reason \notin {"open", "xref"}}
    IN  /\ rd.lists.all = [i \in 1..Len(es) |-> es[i].dwg]
        /\ Len(rd.lists.open) = Cardinality(With("open"))
        /\ Len(rd.lists.xref) = Cardinality(With("xref"))
        /\ Len(rd.lists.unknown) = Cardinality(Others)
        /\ \A i \in With("open") : es[i].dwg \in Range(rd.lists.open)
        /\ \A i \in With("xref") : es[i].dwg \in Range(rd.lists.xref)
        /\ \A i \in Others : es[i].dwg \in Range(rd.lists.unknown)
        /\ Len(failed_list.all) = Len(failed_list.open) + Len(failed_list.xref)
                                   + Len(failed_list.unknown)

\* A report read from a queue that held an entry of each kind.
C23_Witness ==
    /\ filterFired = 1 /\ fail_queue = <<>>
    /\ Len(failed_list.all) = MaxReport
    /\ failed_list.open # <<>>
    /\ failed_list.xref # <<>>
    /\ failed_list.unknown # <<>>

\* ============================================== MultiProcessingHandler
\* main.py: a logging handler that hands every record to a multiprocessing
\* queue; one daemon thread of the creating process forwards the records to
\* the wrapped handler (the sink).
\*
\* A log record, as far as _format_record looks at it:
\*   args      "None" | "empty" (an empty tuple, what the logging calls pass
\*             when there are no arguments) | "values" (arguments that fit
\*             the message) | "mismatch" (msg % args raises)
\*   msg       "format" a string the arguments are still to be merged into,
\*             "text" a string that is the final message, "object" any
\*             other object (logging accepts one and calls str() on it when
\*             the record is formatted)
\*   exc_info  "None" | "False" | "exc" (an exception triple)
\*   exc_text  "None" | "text" (the traceback, rendered and cached)
\*   seq       the number of the emit() call the record came with
\*   process   the process that created the record (LogRecord.process)
MsgKinds == {"str", "object"}
ArgsValues == {"None", "empty", "values", "mismatch"}
ExcInfoValues == {"None", "False", "exc"}

LogRecord(n, p, m, a, e) ==
    [seq |-> n, process |-> p, args |-> a, exc_info |-> e, exc_text |-> "None",
     msg |-> IF m = "object" THEN "object"
             ELSE IF a \in {"values", "mismatch"} THEN "format" ELSE "text"]

\* Python truth value of record.args / record.exc_info.
Truthy(v) == v \in {"values", "mismatch", "exc"}

\* record.msg % record.args raises for arguments that do not fit, and for a
\* msg that is not a string.
FormatRaises(r) ==
    \/ r.args = "mismatch"
    \/ r.msg = "object" /\ Truthy(r.args)

\* if record.args: record.msg = record.msg % record.args; record.args = None
\* if record.exc_info: self.format(record); record.exc_info = None
_format_record(r) ==
    LET merged == IF Truthy(r.args)
                  THEN [r EXCEPT !.msg = "text", !.args = "None"]
                  ELSE r
    IN  IF Truthy(merged.exc_info)
        THEN [merged EXCEPT !.exc_text = "text", !.exc_info = "None"]
        ELSE merged

\* The records emit() is called with in the transport specification.
EmitShapes ==
    {<<"str", "empty", "None">>, <<"str", "values", "exc">>,
     <<"str", "mismatch", "None">>}

EmitCalls == Len(emitted) + handled

\* A put on a queue of size one: blocks the caller while a record is waiting.
_send_Bounded(p, s) ==
    /\ buffer[p] = <<>> /\ pipe = <<>>
    /\ buffer' = [buffer EXCEPT ![p] = Append(@, s)]
    /\ emitted' = Append(emitted, s)
    /\ UNCHANGED handled

\* _send: self.queue.put_nowait(s) on mp.Queue(-1).  put_nowait appends to the
\* buffer of the calling process and returns; in the process that closed the
\* queue it raises ValueError instead, which emit hands to handleError.
_send(p, s) ==
    IF p = 1 /\ queue_closed
    THEN /\ handled' = handled + 1
         /\ UNCHANGED <<buffer, emitted>>
    ELSE /\ buffer' = [buffer EXCEPT ![p] = Append(@, s)]
         /\ emitted' = Append(emitted, s)
         /\ UNCHANGED handled

\* emit: s = self._format_record(record); self._send(s); any exception other
\* than KeyboardInterrupt and SystemExit goes to self.handleError(record).
emit(p, m, a, e) ==
    /\ EmitCalls < MaxRecords
    /\ LET record == LogRecord(EmitCalls + 1, p, m, a, e)
       IN  IF FormatRaises(record)
           THEN /\ handled' = handled + 1
                /\ UNCHANGED <<buffer, emitted>>
           ELSE _send(p, _format_record(record))
    /\ UNCHANGED <<nonMphVars, pipe, is_closed, queue_closed, receive_thread,
                   sink, sink_closed, closePc, closeCalls, beforeClose,
                   timedOut, emitAfterClose>>

\* A feeder that takes the newest buffered record first.
Feeder_Lifo(p) ==
    /\ buffer[p] # <<>>
    /\ pipe' = Append(pipe, buffer[p][Len(buffer[p])])
    /\ buffer' = [buffer EXCEPT ![p] = SubSeq(@, 1, Len(@) - 1)]
    /\ UNCHANGED <<nonMphVars, is_closed, queue_closed, receive_thread, sink,
                   sink_closed, closePc, closeCalls, emitted, handled,
                   beforeClose, timedOut, emitAfterClose>>

\* The feeder thread of mp.Queue in process p: moves the oldest buffered
\* record to the pipe.  Queue.empty() and Queue.get() look at the pipe only.
Feeder(p) ==
    /\ buffer[p] # <<>>
    /\ pipe' = Append(pipe, Head(buffer[p]))
    /\ buffer' = [buffer EXCEPT ![p] = Tail(@)]
    /\ UNCHANGED <<nonMphVars, is_closed, queue_closed, receive_thread, sink,
                   sink_closed, closePc, closeCalls, emitted, handled,
                   beforeClose, timedOut, emitAfterClose>>

\* _receive, one turn of the loop that finds a record:
\*   record = self.queue.get(timeout=0.2)
ReceiveGet ==
    /\ receive_thread.pc = "loop"
    /\ pipe # <<>>
    /\ receive_thread' = [pc |-> "emit", record |-> Head(pipe)]
    /\ pipe' = Tail(pipe)
    /\ UNCHANGED <<nonMphVars, buffer, is_closed, queue_closed, sink,
                   sink_closed, closePc, closeCalls, emitted, handled,
                   beforeClose, timedOut, emitAfterClose>>

\*   self.sub_handler.emit(record)
ReceiveEmit ==
    /\ receive_thread.pc = "emit"
    /\ sink' = Append(sink, receive_thread.record)
    /\ emitAfterClose' = emitAfterClose + (IF sink_closed THEN 1 ELSE 0)
    /\ receive_thread' = [pc |-> "loop", record |-> None]
    /\ UNCHANGED <<nonMphVars, buffer, pipe, is_closed, queue_closed,
                   sink_closed, closePc, closeCalls, emitted, handled,
                   beforeClose, timedOut>>

\* while not (self._is_closed and self.queue.empty()) fails: self.queue.close()
ReceiveLeave ==
    /\ receive_thread.pc = "loop"
    /\ is_closed
    /\ pipe = <<>>
    /\ queue_closed' = TRUE
    /\ receive_thread' = [pc |-> "join_thread", record |-> None]
    /\ UNCHANGED <<nonMphVars, buffer, pipe, is_closed, sink, sink_closed,
                   closePc, closeCalls, emitted, handled, beforeClose,
                   timedOut, emitAfterClose>>

\* self.queue.join_thread(): returns once the feeder of this process has
\* flushed its buffer; the thread ends.
ReceiveJoinThread ==
    /\ receive_thread.pc = "join_thread"
    /\ buffer[1] = <<>>
    /\ receive_thread' = [pc |-> "exited", record |-> None]
    /\ UNCHANGED <<nonMphVars, buffer, pipe, is_closed, queue_closed, sink,
                   sink_closed, closePc, closeCalls, emitted, handled,
                   beforeClose, timedOut, emitAfterClose>>

_receive == ReceiveGet \/ ReceiveEmit \/ ReceiveLeave \/ ReceiveJoinThread

\* close(), first call: self._is_closed = True, then self._receive_thread.join(5.0)
CloseBegin ==
    /\ ~is_closed
    /\ closeCalls < MaxCloses
    /\ is_closed' = TRUE
    /\ closePc' = "joining"
    /\ closeCalls' = closeCalls + 1
    /\ beforeClose' = Len(emitted)
    /\ UNCHANGED <<nonMphVars, buffer, pipe, queue_closed, receive_thread,
                   sink, sink_closed, emitted, handled, timedOut,
                   emitAfterClose>>

\* join(5.0) returns, because the receive thread ended or because five
\* seconds passed; then self.sub_handler.close() and Handler.close().
CloseFinish ==
    /\ closePc = "joining"
    /\ timedOut' = (receive_thread.pc # "exited")
    /\ sink_closed' = TRUE
    /\ closePc' = "returned"
    /\ UNCHANGED <<nonMphVars, buffer, pipe, is_closed, queue_closed,
                   receive_thread, sink, closeCalls, emitted, handled,
                   beforeClose, emitAfterClose>>

\* close() on a handler whose _is_closed is set: the if is skipped.
CloseAgain ==
    /\ is_closed
    /\ closeCalls < MaxCloses
    /\ closeCalls' = closeCalls + 1
    /\ UNCHANGED <<nonMphVars, buffer, pipe, is_closed, queue_closed,
                   receive_thread, sink, sink_closed, closePc, emitted,
                   handled, beforeClose, timedOut, emitAfterClose>>

close == CloseBegin \/ CloseFinish \/ CloseAgain

\* The handler alone: producers emit, the feeders and the receive thread run,
\* the owner closes.
LogNext ==
    \/ \E p \in Producers : \E sh \in EmitShapes :
          emit(p, sh[1], sh[2], sh[3])
    \/ \E p \in Producers : Feeder(p)
    \/ _receive
    \/ close

\* The host's CPU count plays no part in the handler.
LogInit == Init /\ cpu_count = 1

LogSpec == LogInit /\ [][LogNext]_vars

\* ------------------------------------------------------------------ C24
\* Records that emit enqueued and that are still on their way to the sink.
InTransit ==
    LET RECURSIVE Buffered(_)
        Buffered(p) == IF p = 0 THEN 0 ELSE Len(buffer[p]) + Buffered(p - 1)
    IN  Buffered(MaxProducers) + Len(pipe)
        + (IF receive_thread.pc = "emit" THEN 1 ELSE 0)

\* C24: emit never blocks and never fails the producer.  In every state, with
\* whatever is waiting on the queue, with the handler open or closed and the
\* receive thread running or gone, every producer can complete an emit call
\* with every record; the call ends with the record on the queue or in
\* handleError, and never writes to the sink: each record emit enqueued is
\* waiting on the queue, in the hands of the receive thread, or was forwarded
\* by it.
C24_EmitNeverBlocks ==
    /\ \A p \in Producers : \A sh \in EmitShapes :
          EmitCalls < MaxRecords => ENABLED emit(p, sh[1], sh[2], sh[3])
    /\ Len(sink) + InTransit = Len(emitted)
    /\ handled <= MaxRecords

\* A producer completed emit calls while its earlier records were still
\* waiting in its buffer and the handler was already closed.
C24_Witness ==
    /\ is_closed
    /\ Len(buffer[MaxProducers]) = MaxRecords
    /\ sink = <<>>

\* ------------------------------------------------------------------ C25
\* C25: close() marks the handler closed, waits for the receive thread and
\* then closes the sink.  When the join did not time out, every record that
\* emit had enqueued before close() began is in the sink by the time the sink
\* is closed; the sink is closed only by a close() that has finished, and
\* only the first close() call does any of this.
C25_CloseDrainsBeforeSinkCloses ==
    /\ (sink_closed /\ ~timedOut) =>
          \A i \in 1..beforeClose : \E j \in 1..Len(sink) : sink[j] = emitted[i]
    /\ sink_closed <=> closePc = "returned"
    /\ closeCalls > 0 <=> is_closed

\* ------------------------------------------------------------------ C26
\* The feeder pickles a record before it writes it; a record whose msg is an
\* object that cannot be pickled is dropped there (the feeder prints the
\* traceback and goes on).
FeederDrop(p) ==
    /\ buffer[p] # <<>>
    /\ Head(buffer[p]).msg = "object"
    /\ buffer' = [buffer EXCEPT ![p] = Tail(@)]
    /\ UNCHANGED <<nonMphVars, pipe, is_closed, queue_closed, receive_thread,
                   sink, sink_closed, closePc, closeCalls, emitted, handled,
                   beforeClose, timedOut, emitAfterClose>>

\* emit with every kind of record, and the feeders: what reaches the queue.
RecordNext ==
    \/ \E p \in Producers : \E m \in MsgKinds : \E a \in ArgsValues :
          \E e \in ExcInfoValues : emit(p, m, a, e)
    \/ \E p \in Producers : Feeder(p)
    \/ \E p \in Producers : FeederDrop(p)

RecordSpec == LogInit /\ [][RecordNext]_vars

\* C26: every record emit put on the queue is self-contained: it has args
\* None and exc_info None, carries its final message text, and is left
\* unchanged by another _format_record.
C26_QueuedRecordsSelfContained ==
    \A i \in 1..Len(emitted) :
        /\ emitted[i].args = "None"
        /\ emitted[i].exc_info = "None"
        /\ emitted[i].msg = "text"
        /\ _format_record(emitted[i]) = emitted[i]

\* ======================================================== LogDispatcher
\* log_handlers.py: the dispatcher process runs log_listener, which starts a
\* logging.handlers.QueueListener on the log queue, waits for the stop event
\* and stops the listener.  The log queue is a manager queue: a put has
\* placed its record on the queue when it returns.  Records are numbered
\* 1, 2, ... in the order they are put; the listener's sentinel is None.

\* A worker process logs: its QueueHandler puts the record on the log queue.
LogPut ==
    /\ logPuts < MaxLogEvents
    /\ logPuts' = logPuts + 1
    /\ log_queue' = Append(log_queue, logPuts + 1)
    /\ UNCHANGED <<nonDispVars, stop_event, listener, monitor, dispatched,
                   putsAtSentinel, stopPc>>

\* QueueListener._monitor, one turn: record = self.dequeue(True); the sentinel
\* ends the thread.
MonitorDequeue ==
    /\ monitor.pc = "dequeue"
    /\ log_queue # <<>>
    /\ log_queue' = Tail(log_queue)
    /\ monitor' = IF Head(log_queue) = None
                  THEN [pc |-> "ended", record |-> None]
                  ELSE [pc |-> "handle", record |-> Head(log_queue)]
    /\ UNCHANGED <<nonDispVars, logPuts, stop_event, listener, dispatched,
                   putsAtSentinel, stopPc>>

\* self.handle(record): SimpleLogHandler.handle passes the record to the
\* logger of its name.
MonitorHandle ==
    /\ monitor.pc = "handle"
    /\ dispatched' = Append(dispatched, monitor.record)
    /\ monitor' = [pc |-> "dequeue", record |-> None]
    /\ UNCHANGED <<nonDispVars, log_queue, logPuts, stop_event, listener,
                   putsAtSentinel, stopPc>>

Monitor == MonitorDequeue \/ MonitorHandle

\* A listener that is stopped by leaving: the process returns at once and its
\* daemon thread dies with it.
ListenerStop_NoJoin ==
    /\ listener = "wait"
    /\ stop_event
    /\ listener' = "exited"
    /\ monitor' = [pc |-> "ended", record |-> None]
    /\ putsAtSentinel' = logPuts
    /\ UNCHANGED <<nonDispVars, log_queue, logPuts, stop_event, dispatched,
                   stopPc>>

\* log_listener: stop_event.wait() returns, listener.stop() puts the sentinel
\* on the queue and joins the thread.
ListenerStop ==
    /\ listener = "wait"
    /\ stop_event
    /\ log_queue' = Append(log_queue, None)
    /\ putsAtSentinel' = logPuts
    /\ listener' = "stopping"
    /\ UNCHANGED <<nonDispVars, logPuts, stop_event, monitor, dispatched,
                   stopPc>>

\* The join in listener.stop() returns, log_listener returns, the process
\* exits.
ListenerExit ==
    /\ listener = "stopping"
    /\ monitor.pc = "ended"
    /\ listener' = "exited"
    /\ UNCHANGED <<nonDispVars, log_queue, logPuts, stop_event, monitor,
                   dispatched, putsAtSentinel, stopPc>>

log_listener == ListenerStop \/ ListenerExit

\* LogDispatcher.stop: self.stop_event.set(), then self.log_process.join()
StopBegin ==
    /\ stopPc = "idle"
    /\ stop_event' = TRUE
    /\ stopPc' = "joining"
    /\ UNCHANGED <<nonDispVars, log_queue, logPuts, listener, monitor,
                   dispatched, putsAtSentinel>>

StopReturn ==
    /\ stopPc = "joining"
    /\ listener = "exited"
    /\ stopPc' = "returned"
    /\ UNCHANGED <<nonDispVars, log_queue, logPuts, stop_event, listener,
                   monitor, dispatched, putsAtSentinel>>

DispatchNext ==
    \/ LogPut
    \/ Monitor
    \/ log_listener
    \/ StopBegin
    \/ StopReturn

DispatchSpec == LogInit /\ [][DispatchNext]_vars

\* The listener thread, the listener process and the process calling stop()
\* are scheduled by the operating system: each takes a step it can take.
FairDispatchSpec ==
    /\ DispatchSpec
    /\ WF_vars(Monitor)
    /\ WF_vars(log_listener)
    /\ WF_vars(StopReturn)

\* ------------------------------------------------------------------ C27
\* C27: log_listener dispatches until the stop signal is set and does not
\* return before it: while the signal is not set the listener waits and its
\* thread is alive, and a live thread can always take the next record.  Once
\* LogDispatcher.stop() has set the signal, stop() eventually returns; it
\* returns only after the process has exited, the process exits only after
\* the listener thread has ended, and by then every record that was on the
\* log queue when the listener was stopped has been dispatched, in order.
C27_ListenerStopsOnSignalOnly ==
    /\ [](/\ ~stop_event => (listener = "wait" /\ monitor.pc # "ended")
          /\ (monitor.pc = "dequeue" /\ log_queue # <<>>) => ENABLED Monitor
          /\ stopPc = "returned" => listener = "exited"
          /\ listener = "exited" =>
                /\ monitor.pc = "ended"
                /\ Len(dispatched) >= putsAtSentinel
                /\ \A n \in 1..putsAtSentinel : dispatched[n] = n)
    /\ (stop_event ~> stopPc = "returned")

\* stop() has returned after the listener worked off a queue that held every
\* record when the signal was set.
C27_Witness ==
    /\ stopPc = "returned"
    /\ putsAtSentinel = MaxLogEvents
    /\ Len(dispatched) = MaxLogEvents
    /\ log_queue = <<>>

\* ------------------------------------------------------------------ C28
\* C28: builders do not survive into the next run.  Every builder of a pool
\* that reset_builders replaced was terminated by it or had ended before, so
\* the live builders are all in self.builders and are at most num_builders.
C28_NoBuilderSurvivesReset ==
    /\ previous \subseteq {"terminated", "exited", "crashed"}
    /\ Cardinality(LiveBuilders) <= num_builders
    /\ Len(builders) = num_builders

\* A second process() has replaced builders that the first run left waiting
\* in get(): the first run ended in on_error and pushed no sentinel.
C28_Witness ==
    /\ runs = MaxRuns + 1
    /\ "terminated" \in previous
    /\ sentinels = 0
    /\ LiveBuilders # {}

\* ------------------------------------------------------------------ C29
\* C29: a run goes from idle through validating and building back to idle,
\* or through an error back to idle: run() sets job_running, and with fair
\* scheduling every run reaches a terminal callback (processing_done or
\* processing_error), which clears job_running.
C29_EveryRunReturnsToIdle == job_running ~> ~job_running

\* ------------------------------------------------------------------ C30
\* C30: whenever filter_callback fires, the fail queue holds every rejection
\* of the run followed by one None, on every path through process(): the
\* read loop of filtering_done never blocks on the queue, and when it has
\* run, failed_list['all'] holds exactly the run's rejections.
C30_ReaderGetsAllAndTerminates ==
    /\ blocked = {}
    /\ filterFired > 0 =>
          /\ Len(failed_list.all) = nRejected
          /\ Range(failed_list.all) = rejected

\* ------------------------------------------------------------------ C31
\* C31: the open pre-check of process() examines every input item.  After a
\* process() call every open item of the input list has been removed from
\* the list and reported as rejected, so it is not dispatched to validation
\* and never accepted for building, and every item that is not open is still
\* in the list.
C31_PreCheckRemovesEveryOpenItem ==
    runs > 0 =>
        /\ \A d \in Range(input) \cap open_drawings :
              /\ d \notin Range(drawings)
              /\ d \in rejected
              /\ d \notin accepted
        /\ \A d \in Range(input) \ open_drawings : d \in Range(drawings)

\* ------------------------------------------------------------------ C32
\* C32: no record is forwarded to the sink after the sink has been closed:
\* under every interleaving of emit, the receive loop and close(), the join
\* in close() timing out included, sub_handler.emit is never called after
\* sub_handler.close().
C32_NoEmitAfterSinkClosed == emitAfterClose = 0

\* ------------------------------------------------------------------ C33
\* C33 as stated: the records forwarded to the sink are a subsequence of the
\* records enqueued by emit, in the order of the emit calls, none of them
\* forwarded twice; and a receive loop that finds the handler closed and the
\* queue empty ends.
C33_SinkKeepsEmitOrder ==
    /\ \A i \in 1..Len(sink) : \E k \in 1..Len(emitted) : sink[i] = emitted[k]
    /\ \A i, j \in 1..Len(sink) : i < j => sink[i].seq < sink[j].seq
    /\ (is_closed /\ pipe = <<>> /\ receive_thread.pc = "loop")
          => ENABLED ReceiveLeave
    /\ receive_thread.pc = "join_thread"
          => ENABLED (ReceiveJoinThread \/ Feeder(1))

\* C33 amended: the records forwarded to the sink are records enqueued by
\* emit, none of them forwarded twice, and those of one producing process are
\* forwarded in the order that process enqueued them (records of different
\* processes may overtake each other); a receive loop that finds the handler
\* closed and the queue empty ends.
C33_SinkKeepsOrderPerProcess ==
    /\ \A i \in 1..Len(sink) : \E k \in 1..Len(emitted) : sink[i] = emitted[k]
    /\ \A i, j \in 1..Len(sink) : i < j => sink[i].seq # sink[j].seq
    /\ \A i, j \in 1..Len(sink) :
          (i < j /\ sink[i].process = sink[j].process)
              => sink[i].seq < sink[j].seq
    /\ (is_closed /\ pipe = <<>> /\ receive_thread.pc = "loop")
          => ENABLED ReceiveLeave
    /\ receive_thread.pc = "join_thread"
          => ENABLED (ReceiveJoinThread \/ Feeder(1))

\* Two records of one process were forwarded and the receive loop has ended.
C33_Witness ==
    /\ Len(sink) = 2
    /\ sink[1].process = sink[2].process
    /\ sink[1].seq < sink[2].seq
    /\ receive_thread.pc = "exited"

====
